---- MODULE Spec2Model ----
(***************************************************************************)
(* Model of examples/mp/jupyter/efficient.ipynb: the ContextTimer context  *)
(* manager, the eight build_bench_model* functions and the code cells that *)
(* run them inside `with ContextTimer(...)` blocks, including the          *)
(* benchmark loop that fills `res`.                                        *)
(*                                                                         *)
(* Sizes are scaled down: the literals 1000 (line 139), 3000 (line 159)    *)
(* and the entries of `sizes` (line 479) are replaced by small values.     *)
(* The wall clock is counted in ticks, TicksPerMs ticks to a millisecond.  *)
(***************************************************************************)
EXTENDS Integers, Sequences, FiniteSets, TLC

MaxSize == 3        \* largest model size N drawn for the single-builder cells
Size1k == 2         \* the size passed at line 139 (the literal 1000), scaled
NumSizes == 1       \* length of the scaled `sizes` list of the benchmark loop
MaxClock == 2       \* the clock is followed up to this many ticks
MaxBack == 1        \* how many times the wall clock may be set back
TicksPerMs == 2     \* clock resolution: ticks per millisecond

TicksPerSec == 1000 * TicksPerMs

(***************************************************************************)
(* Python helpers                                                          *)
(***************************************************************************)

\* range(size): the sequence 0, 1, ..., size-1 (position p holds p-1)
Range(size) == [p \in 1..size |-> p - 1]

\* seq[idx] with Python's 0-based index
At(seq, idx) == seq[idx + 1]

\* math.ceil(num / den) for den > 0, also for negative num
CeilFloor(num, den) == num \div den
CeilDiv(num, den) == -((-num) \div den)

\* math.ceil(1000 * elapsed), elapsed = dt ticks = dt / TicksPerSec seconds
CeilMsecs(dt) == CeilDiv(1000 * dt, TicksPerSec)

\* '{:.0f}'.format(n) for a whole number n
Fmt0f(n) == ToString(n)

RECURSIVE fib(_)
fib(n) == IF n <= 2 THEN 1 ELSE fib(n - 1) + fib(n - 2)

FibArg == 30
FibValue == fib(FibArg)

(***************************************************************************)
(* The modelling API as the notebook uses it.  A linear expression over a  *)
(* model with n variables is the function 0..n-1 -> coefficient.           *)
(***************************************************************************)

ZeroExpr(n) == [v \in 0..(n - 1) |-> 0]

\* var * coef
Monomial(n, v, coef) == [w \in 0..(n - 1) |-> IF w = v THEN coef ELSE 0]

AddExpr(e1, e2) == [v \in DOMAIN e1 |-> e1[v] + e2[v]]

\* m.sum(terms): the sum of a sequence of expressions
RECURSIVE SumFrom(_, _, _)
SumFrom(n, terms, p) ==
    IF p > Len(terms) THEN ZeroExpr(n)
    ELSE AddExpr(terms[p], SumFrom(n, terms, p + 1))

ModelSum(n, terms) == SumFrom(n, terms, 1)

Min2(a, b) == IF a <= b THEN a ELSE b

\* m.scal_prod(terms, coefs): sum of terms[p] * coefs[p] over the common positions
scal_prod(n, terms, coefs) ==
    ModelSum(n, [p \in 1..Min2(Len(terms), Len(coefs)) |-> Monomial(n, terms[p], coefs[p])])

\* AdvModel.scal_prod_vars_all_different(terms, coefs): the variables are taken to be
\* pairwise different, so each contributes its own coefficient without merging
scal_prod_vars_all_different_short(n, terms, coefs) ==
    [v \in 0..(n - 1) |->
        IF \E p \in 1..(Min2(Len(terms), Len(coefs)) - 1) : terms[p] = v
        THEN coefs[CHOOSE p \in 1..(Min2(Len(terms), Len(coefs)) - 1) : terms[p] = v]
        ELSE 0]
scal_prod_vars_all_different(n, terms, coefs) ==
    [v \in 0..(n - 1) |->
        IF \E p \in 1..Min2(Len(terms), Len(coefs)) : terms[p] = v
        THEN coefs[CHOOSE p \in 1..Min2(Len(terms), Len(coefs)) : terms[p] = v]
        ELSE 0]

\* expr >= rhs, then named by m.add / m.add_constraints
GeCt(expr, rhs, name) == [lhs |-> expr, sense |-> ">=", rhs |-> rhs, ctname |-> name]

NoObjective == [none |-> TRUE]
NoModel == [nomodel |-> TRUE]
NoFrame == [noframe |-> TRUE]

\* Model(name=..., ignore_names=..., checker=...) / AdvModel(...)
NewModel(cls, name, ignore, checker) ==
    [cls |-> cls, name |-> name, ignore_names |-> ignore, checker |-> checker,
     vars |-> <<>>, cts |-> <<>>, objective |-> NoObjective, ended |-> FALSE]

\* a name given to a variable or constraint: dropped when ignore_names is set
KeptName(m, name) == IF m.ignore_names THEN "" ELSE name

\* m.binary_var_dict(keys, name) / m.binary_var_list(keys, name): one binary
\* variable per key, appended to the model in key order
binary_vars_short(m, keys, name) ==
    [p \in 1..(Len(keys) - 1) |->
        [vtype |-> "binary", vname |-> KeptName(m, name \o "_" \o ToString(keys[p]))]]
binary_vars(m, keys, name) ==
    [p \in 1..Len(keys) |->
        [vtype |-> "binary", vname |-> KeptName(m, name \o "_" \o ToString(keys[p]))]]

\* the dict returned by binary_var_dict: key -> variable index
VarDict(keys) == [key \in {keys[p] : p \in DOMAIN keys} |->
                     (CHOOSE p \in DOMAIN keys : keys[p] = key) - 1]

\* the list returned by binary_var_list: position -> variable index
VarList(keys) == [p \in 1..Len(keys) |-> p - 1]

\* "ct_%d" % i
CtName(i) == "ct_" \o ToString(i)

\* k = {(i,j) : (i + (i+j) %3) for i in rsize for j in rsize}
kdict(size) == [ij \in (0..(size - 1)) \X (0..(size - 1)) |-> ij[1] + ((ij[1] + ij[2]) % 3)]

\* rsize1 = [i+1 for i in rsize]
rsize1(size) == [p \in 1..size |-> Range(size)[p] + 1]

(***************************************************************************)
(* The eight builders.  A builder's frame holds its locals: fn (which      *)
(* builder), size, m, ys, k and the loop index i.                          *)
(***************************************************************************)

BuilderIds == {"1", "2", "21", "3", "4", "5", "6", "7"}

BuilderName(fn) == "build_bench_model" \o fn

\* m = Model(name=...) / AdvModel(name=...), first statement of each builder
ModelCtor(fn) ==
    CASE fn = "1"  -> NewModel("Model", "bench1", FALSE, "on")
      [] fn = "2"  -> NewModel("Model", "bench2", FALSE, "on")
      [] fn = "21" -> NewModel("Model", "bench2.1", FALSE, "on")
      [] fn = "3"  -> NewModel("Model", "bench3", FALSE, "on")
      [] fn = "4"  -> NewModel("Model", "bench4", FALSE, "on")
      [] fn = "5"  -> NewModel("Model", "bench5", TRUE, "on")
      [] fn = "6"  -> NewModel("Model", "bench6", TRUE, "off")
      [] fn = "7"  -> NewModel("AdvModel", "bench7", TRUE, "off")

\* builders 1 and 2 call binary_var_dict, the others binary_var_list
UsesVarDict(fn) == fn \in {"1", "2"}

\* builders 1, 2, 21 and 3 allocate the coefficient dictionary k
UsesCoefDict(fn) == fn \in {"1", "2", "21", "3"}

\* builders 1, 2 and 21 add the constraints one by one with m.add
AddsOneByOne(fn) == fn \in {"1", "2", "21"}

NumVars(f) == Len(f.m.vars)

\* the left-hand side of constraint i, as each builder writes it
CtExpr(f, i) ==
    LET n == NumVars(f)
        rsize == Range(f.size)
    IN CASE f.fn = "1" ->
              \* m.sum(ys[i] * k[i,j] for j in rsize)
              ModelSum(n, [p \in 1..Len(rsize) |-> Monomial(n, f.ys[i], f.k[<<i, rsize[p]>>])])
         [] f.fn = "2" ->
              \* m.scal_prod([ys[i1] for i1 in rsize], [k[i,j] for j in rsize])
              scal_prod(n, [p \in 1..Len(rsize) |-> f.ys[rsize[p]]],
                           [p \in 1..Len(rsize) |-> f.k[<<i, rsize[p]>>]])
         [] f.fn \in {"21", "3"} ->
              \* m.scal_prod(ys, [k[i,j] for j in rsize])
              scal_prod(n, f.ys, [p \in 1..Len(rsize) |-> f.k[<<i, rsize[p]>>]])
         [] f.fn \in {"4", "5", "6"} ->
              \* m.scal_prod(ys, [(i+ (i+j)%3) for j in rsize])
              scal_prod(n, f.ys, [p \in 1..Len(rsize) |-> i + ((i + rsize[p]) % 3)])
         [] f.fn = "7" ->
              \* m.scal_prod_vars_all_different(ys, [(i+ (i+j)%3) for j in rsize])
              scal_prod_vars_all_different(n, f.ys,
                           [p \in 1..Len(rsize) |-> i + ((i + rsize[p]) % 3)])

\* the expression handed to m.minimize, as each builder writes it
ObjExpr(f) ==
    LET n == NumVars(f)
        rsize == Range(f.size)
    IN CASE f.fn = "1" ->
              \* m.sum(ys[k] * rsize[k] for k in rsize)
              ModelSum(n, [p \in 1..Len(rsize) |->
                              Monomial(n, f.ys[rsize[p]], At(rsize, rsize[p]))])
         [] f.fn = "2" ->
              \* m.scal_prod([ys[k] for k in rsize], rsize1)
              scal_prod(n, [p \in 1..Len(rsize) |-> f.ys[rsize[p]]], rsize1(f.size))
         [] f.fn \in {"21", "3"} ->
              \* m.scal_prod(ys, rsize1)
              scal_prod(n, f.ys, rsize1(f.size))
         [] f.fn \in {"4", "5", "6"} ->
              \* m.scal_prod(ys, (i+1 for i in rsize))
              scal_prod(n, f.ys, [p \in 1..Len(rsize) |-> rsize[p] + 1])
         [] f.fn = "7" ->
              \* m.scal_prod_vars_all_different(ys, (i+1 for i in rsize))
              scal_prod_vars_all_different(n, f.ys, [p \in 1..Len(rsize) |-> rsize[p] + 1])

\* m.add(expr >= i, "ct_%d" % i): one constraint appended
ModelAdd(m, expr, rhs, name) ==
    [m EXCEPT !.cts = Append(@, GeCt(expr, rhs, KeptName(m, name)))]

\* m.add_constraints(cts, names): all of them appended, in order
add_constraints(m, cts) == [m EXCEPT !.cts = @ \o cts]

\* m.minimize(expr)
ModelMinimize(m, expr) == [m EXCEPT !.objective = [sense |-> "min", expr |-> expr]]

\* m.end()
ModelEnd(m) == [m EXCEPT !.ended = TRUE]

\* the frame of a call build_bench_modelX(size)
NewFrame(fn, size) ==
    [fn |-> fn, size |-> size, m |-> NoModel, ys |-> <<>>, k |-> <<>>, i |-> 0]

\* m = Model(name=...); rsize = range(size)
StepModel(f) == [f EXCEPT !.m = ModelCtor(f.fn)]

\* ys = m.binary_var_dict(rsize, name="y") / m.binary_var_list(rsize, name="y")
StepVars(f) ==
    LET keys == Range(f.size)
    IN [f EXCEPT !.m.vars = @ \o binary_vars(f.m, keys, "y"),
                 !.ys = IF UsesVarDict(f.fn) THEN VarDict(keys) ELSE VarList(keys)]

\* k = {(i,j) : (i + (i+j) %3) for i in rsize for j in rsize}
StepCoefDict(f) == [f EXCEPT !.k = kdict(f.size), !.i = 0]

\* one iteration of: for i in rsize: m.add(... >= i, "ct_%d" % i)
StepAdd(f) ==
    [f EXCEPT !.m = ModelAdd(@, CtExpr(f, f.i), f.i, CtName(f.i)), !.i = @ + 1]

\* m.add_constraints((... >= i for i in rsize), ("ct_%d" % i for i in rsize))
StepAddConstraints(f) ==
    LET rsize == Range(f.size)
        cts == [p \in 1..Len(rsize) |->
                   GeCt(CtExpr(f, rsize[p]), rsize[p], KeptName(f.m, CtName(rsize[p])))]
    IN [f EXCEPT !.m = add_constraints(@, cts)]

\* m.minimize(...)
StepMinimize(f) == [f EXCEPT !.m = ModelMinimize(@, ObjExpr(f))]

\* the whole for loop of builders 1, 2 and 21
RECURSIVE RunAdds(_)
RunAdds(f) == IF f.i < f.size THEN RunAdds(StepAdd(f)) ELSE f

\* the model build_bench_modelX(size) returns: its statements in order
Built(fn, size) ==
    LET f2 == StepVars(StepModel(NewFrame(fn, size)))
        f3 == IF UsesCoefDict(fn) THEN StepCoefDict(f2) ELSE f2
        f4 == IF AddsOneByOne(fn) THEN RunAdds(f3) ELSE StepAddConstraints(f3)
    IN StepMinimize(f4).m

(***************************************************************************)
(* The code cells, run top to bottom                                       *)
(***************************************************************************)

VARIABLES
    cell,        \* index of the code cell being run
    pc,          \* position inside the cell
    N,           \* the global N (line 159), scaled
    clock,       \* what time.time() returns now, in ticks
    backs,       \* how many times the wall clock was set back so far
    timer,       \* the ContextTimer of the current with statement (`tt` in the loop)
    enterCalls,  \* calls of __enter__ on that timer
    exitCalls,   \* calls of __exit__ on that timer
    enterAt,     \* the clock reading taken by the last __enter__
    timed,       \* model operations performed since that __enter__
    exc,         \* an exception is propagating
    out,         \* lines printed by the cell being run
    frame,       \* locals of the builder being executed
    m,           \* the global m of the benchmark loop
    m11k,        \* the global m11k
    res,         \* the dict res: (builder index, size) -> msecs
    sidx,        \* position of the loop variable s in sizes
    b,           \* the loop variable b
    r            \* the run counter r

vars == <<cell, pc, N, clock, backs, timer, enterCalls, exitCalls, enterAt,
          timed, exc, out, frame, m, m11k, res, sidx, b, r>>

\* sizes = [100, 300, 600, 1000, 3000, 5000], scaled to 2, 3, ...
sizes == [p \in 1..NumSizes |-> p + 1]

\* builders = [(build_bench_model1, "initial"), ...]
builders == << [fn |-> "1", label |-> "initial"],
               [fn |-> "2", label |-> "scal_prod"],
               [fn |-> "4", label |-> "batch_cts"],
               [fn |-> "5", label |-> "ignore_names"],
               [fn |-> "6", label |-> "checker_off"],
               [fn |-> "7", label |-> "advmodel"] >>

\* nb_runs = len(sizes) * len(builders)
nb_runs == Len(sizes) * Len(builders)

\* the code cells that contain a with ContextTimer(...) block
Cells == << [kind |-> "fib",    fn |-> "",   msg |-> "fibonacci 30"],
            [kind |-> "keep",   fn |-> "1",  msg |-> "bench1_size_1000"],
            [kind |-> "single", fn |-> "1",  msg |-> "bench1 size="],
            [kind |-> "single", fn |-> "2",  msg |-> "bench3 size="],
            [kind |-> "single", fn |-> "21", msg |-> "bench2.1 size="],
            [kind |-> "single", fn |-> "3",  msg |-> "bench3 size="],
            [kind |-> "single", fn |-> "4",  msg |-> "bench4 size="],
            [kind |-> "single", fn |-> "5",  msg |-> "bench6 size="],
            [kind |-> "single", fn |-> "6",  msg |-> "bench6 size="],
            [kind |-> "single", fn |-> "7",  msg |-> "bench7 size="],
            [kind |-> "loop",   fn |-> "",   msg |-> ""] >>

Kind == Cells[cell].kind

\* the builder called in the current timed block
CurrentFn == IF Kind = "loop" THEN At(builders, b).fn ELSE Cells[cell].fn

\* the size it is called with
CurrentSize ==
    CASE Kind = "keep" -> Size1k
      [] Kind = "single" -> N
      [] Kind = "loop" -> sizes[sidx]
      [] OTHER -> 0

\* the msg argument of ContextTimer(...)
CurrentMsg ==
    CASE Kind = "single" -> Cells[cell].msg \o ToString(N)
      [] Kind = "loop" ->
             \* "[{2}/{3}] use {0} with size={1}".format(bf.__name__, s, r, nb_runs)
             "[" \o ToString(r) \o "/" \o ToString(nb_runs) \o "] use "
                 \o BuilderName(CurrentFn) \o " with size=" \o ToString(sizes[sidx])
      [] OTHER -> Cells[cell].msg

\* '<-- {0},  time: {1:.0f} ms'.format(self.msg, self.msecs)
ReportLineNoMsg(msg, msecs) == "<-- ,  time: " \o Fmt0f(msecs) \o " ms"
ReportLine(msg, msecs) == "<-- " \o msg \o ",  time: " \o Fmt0f(msecs) \o " ms"

\* what __exit__ returns, as the with statement reads it: None, so the
\* exception in flight is not suppressed
ExitSuppressesTrue == TRUE
ExitSuppresses == FALSE

\* the clock readings time may move to while one step runs
NextClocks ==
    {c \in (clock - 1)..(clock + 1) :
        /\ 0 <= c
        /\ c <= MaxClock
        /\ c < clock => backs < MaxBack}

Elapse ==
    \E c \in NextClocks :
        /\ clock' = c
        /\ backs' = IF c < clock THEN backs + 1 ELSE backs

Init ==
    /\ cell = 1
    /\ pc = "start"
    /\ N \in 0..MaxSize
    /\ clock = 0
    /\ backs = 0
    /\ timer = [none |-> TRUE]
    /\ enterCalls = 0
    /\ exitCalls = 0
    /\ enterAt = 0
    /\ timed = <<>>
    /\ exc = FALSE
    /\ out = <<>>
    /\ frame = NoFrame
    /\ m = NoModel
    /\ m11k = NoModel
    /\ res = <<>>
    /\ sidx = 1
    /\ b = 0
    /\ r = 0

\* ContextTimer(msg): __init__ sets msg and start = 0
NewTimer ==
    /\ pc = "start"
    /\ timer' = [msg |-> CurrentMsg, start |-> 0]
    /\ enterCalls' = 0
    /\ exitCalls' = 0
    /\ timed' = <<>>
    /\ pc' = "enter"
    /\ UNCHANGED <<cell, N, clock, backs, enterAt, exc, out, frame, m, m11k,
                   res, sidx, b, r>>

\* __enter__: self.start = time.time()
Enter ==
    /\ pc = "enter"
    /\ timer' = [timer EXCEPT !.start = clock]
    /\ enterCalls' = enterCalls + 1
    /\ enterAt' = clock
    /\ pc' = "body"
    /\ UNCHANGED <<cell, N, clock, backs, exitCalls, timed, exc, out, frame,
                   m, m11k, res, sidx, b, r>>

\* n = 30; f = fib(n); print("fibonacci({0}) = {1}".format(n, f))
FibBody ==
    /\ pc = "body"
    /\ Kind = "fib"
    /\ out' = Append(out, "fibonacci(" \o ToString(FibArg) \o ") = " \o ToString(FibValue))
    /\ Elapse
    /\ pc' = "exit"
    /\ UNCHANGED <<cell, N, timer, enterCalls, exitCalls, enterAt, timed, exc,
                   frame, m, m11k, res, sidx, b, r>>

\* the call build_bench_modelX(size): a fresh frame
Call ==
    /\ pc = "body"
    /\ Kind # "fib"
    /\ frame' = NewFrame(CurrentFn, CurrentSize)
    /\ timed' = Append(timed, "build")
    /\ pc' = "b_model"
    /\ UNCHANGED <<cell, N, clock, backs, timer, enterCalls, exitCalls, enterAt,
                   exc, out, m, m11k, res, sidx, b, r>>

\* m = Model(name=...); rsize = range(size)
BModel ==
    /\ pc = "b_model"
    /\ frame' = StepModel(frame)
    /\ Elapse
    /\ pc' = "b_vars"
    /\ UNCHANGED <<cell, N, timer, enterCalls, exitCalls, enterAt, timed, exc,
                   out, m, m11k, res, sidx, b, r>>

\* ys = m.binary_var_dict(rsize, name="y") / m.binary_var_list(rsize, name="y")
BVars ==
    /\ pc = "b_vars"
    /\ frame' = StepVars(frame)
    /\ Elapse
    /\ pc' = IF UsesCoefDict(frame.fn) THEN "b_k" ELSE "b_cts"
    /\ UNCHANGED <<cell, N, timer, enterCalls, exitCalls, enterAt, timed, exc,
                   out, m, m11k, res, sidx, b, r>>

\* k = {(i,j) : (i + (i+j) %3) for i in rsize for j in rsize}
BCoefDict ==
    /\ pc = "b_k"
    /\ frame' = StepCoefDict(frame)
    /\ Elapse
    /\ pc' = IF ~AddsOneByOne(frame.fn) THEN "b_cts"
             ELSE IF frame.size = 0 THEN "b_obj" ELSE "b_add"
    /\ UNCHANGED <<cell, N, timer, enterCalls, exitCalls, enterAt, timed, exc,
                   out, m, m11k, res, sidx, b, r>>

\* one iteration of: for i in rsize: m.add(... >= i, "ct_%d" % i)
BAdd ==
    /\ pc = "b_add"
    /\ frame.i < frame.size
    /\ frame' = StepAdd(frame)
    /\ Elapse
    /\ pc' = IF frame.i + 1 < frame.size THEN "b_add" ELSE "b_obj"
    /\ UNCHANGED <<cell, N, timer, enterCalls, exitCalls, enterAt, timed, exc,
                   out, m, m11k, res, sidx, b, r>>

\* m.add_constraints((... >= i for i in rsize), ("ct_%d" % i for i in rsize))
BAddConstraints ==
    /\ pc = "b_cts"
    /\ frame' = StepAddConstraints(frame)
    /\ Elapse
    /\ pc' = "b_obj"
    /\ UNCHANGED <<cell, N, timer, enterCalls, exitCalls, enterAt, timed, exc,
                   out, m, m11k, res, sidx, b, r>>

\* m.minimize(...)
BMinimize ==
    /\ pc = "b_obj"
    /\ frame' = StepMinimize(frame)
    /\ Elapse
    /\ pc' = "b_ret"
    /\ UNCHANGED <<cell, N, timer, enterCalls, exitCalls, enterAt, timed, exc,
                   out, m, m11k, res, sidx, b, r>>

\* return m, and the assignment of the result in the calling cell
BReturn ==
    /\ pc = "b_ret"
    /\ m11k' = IF Kind = "keep" THEN frame.m ELSE m11k
    /\ m' = IF Kind = "loop" THEN frame.m ELSE m
    /\ frame' = NoFrame
    /\ pc' = IF Kind = "loop" THEN "end" ELSE "exit"
    /\ UNCHANGED <<cell, N, clock, backs, timer, enterCalls, exitCalls, enterAt,
                   timed, exc, out, res, sidx, b, r>>

\* m.end(), inside the with block of the benchmark loop
End ==
    /\ pc = "end"
    /\ m' = ModelEnd(m)
    /\ timed' = Append(timed, "end")
    /\ Elapse
    /\ pc' = "exit"
    /\ UNCHANGED <<cell, N, timer, enterCalls, exitCalls, enterAt, exc, out,
                   frame, m11k, res, sidx, b, r>>

\* a call into the modelling library raises: the builder's frame is unwound
LibraryPcs == {"b_model", "b_vars", "b_add", "b_cts", "b_obj", "end"}

Raise ==
    /\ pc \in LibraryPcs
    /\ exc' = TRUE
    /\ frame' = NoFrame
    /\ pc' = "exit"
    /\ UNCHANGED <<cell, N, clock, backs, timer, enterCalls, exitCalls, enterAt,
                   timed, out, m, m11k, res, sidx, b, r>>

\* __exit__(*args): elapsed, self.msecs, print; then the with statement
\* re-raises the exception in flight unless __exit__ returned a true value
Exit ==
    /\ pc = "exit"
    /\ LET elapsed == clock - timer.start
           msecs == CeilMsecs(elapsed)
       IN /\ timer' = [msg |-> timer.msg, start |-> timer.start, msecs |-> msecs]
          /\ out' = Append(out, ReportLine(timer.msg, msecs))
    /\ exitCalls' = exitCalls + 1
    /\ exc' = (exc /\ ~ExitSuppresses)
    /\ pc' = IF exc /\ ~ExitSuppresses THEN "raised" ELSE "after"
    /\ UNCHANGED <<cell, N, clock, backs, enterCalls, enterAt, timed, frame,
                   m, m11k, res, sidx, b, r>>

\* m11k.print_information(); a NameError if m11k was never bound
PrintInformation ==
    /\ pc = "after"
    /\ Kind = "keep"
    /\ IF m11k = NoModel
       THEN /\ exc' = TRUE
            /\ pc' = "raised"
            /\ out' = out
       ELSE /\ exc' = exc
            /\ pc' = "cell_end"
            /\ out' = out \o << "Model: " \o m11k.name,
                                " - number of variables: " \o ToString(Len(m11k.vars)),
                                " - number of constraints: " \o ToString(Len(m11k.cts)) >>
    /\ UNCHANGED <<cell, N, clock, backs, timer, enterCalls, exitCalls, enterAt,
                   timed, frame, m, m11k, res, sidx, b, r>>

\* the next code cell starts, with an empty output area
NextCell ==
    /\ \/ pc = "cell_end"
       \/ pc = "after" /\ Kind \in {"fib", "single"}
    /\ cell < Len(Cells)
    /\ cell' = cell + 1
    /\ out' = <<>>
    /\ pc' = IF Cells[cell + 1].kind = "loop" THEN "loop_init" ELSE "start"
    /\ UNCHANGED <<N, clock, backs, timer, enterCalls, exitCalls, enterAt, timed, exc, frame,
                   m, m11k, res, sidx, b, r>>

\* res = {}; nb_runs = ...; r = 0, and the two prints
LoopInit ==
    /\ pc = "loop_init"
    /\ out' = << "* start computing performance data", "* start computing results..." >>
    /\ res' = <<>>
    /\ r' = 0
    /\ sidx' = 1
    /\ b' = 0
    /\ pc' = "loop_head"
    /\ UNCHANGED <<cell, N, clock, backs, timer, enterCalls, exitCalls, enterAt,
                   timed, exc, frame, m, m11k>>

\* for s in sizes: for b, (bf, _) in enumerate(builders): r += 1
LoopIter ==
    /\ pc = "loop_head"
    /\ sidx <= Len(sizes)
    /\ r' = r + 1
    /\ pc' = "start"
    /\ UNCHANGED <<cell, N, clock, backs, timer, enterCalls, exitCalls, enterAt,
                   timed, exc, out, frame, m, m11k, res, sidx, b>>

\* elapsed = tt.msecs; res[b, s] = tt.msecs, then the loops advance
Record ==
    /\ pc = "after"
    /\ Kind = "loop"
    /\ LET key == <<b, sizes[sidx]>>
       IN res' = [x \in DOMAIN res \cup {key} |-> IF x = key THEN timer.msecs ELSE res[x]]
    /\ IF b + 1 < Len(builders)
       THEN b' = b + 1 /\ sidx' = sidx
       ELSE b' = 0 /\ sidx' = sidx + 1
    /\ pc' = "loop_head"
    /\ UNCHANGED <<cell, N, clock, backs, timer, enterCalls, exitCalls, enterAt,
                   timed, exc, out, frame, m, m11k, r>>

\* print("* end computing results")
LoopDone ==
    /\ pc = "loop_head"
    /\ sidx > Len(sizes)
    /\ out' = Append(out, "* end computing results")
    /\ pc' = "cell_end"
    /\ UNCHANGED <<cell, N, clock, backs, timer, enterCalls, exitCalls, enterAt,
                   timed, exc, frame, m, m11k, res, sidx, b, r>>

Next ==
    \/ NewTimer
    \/ Enter
    \/ FibBody
    \/ Call
    \/ BModel
    \/ BVars
    \/ BCoefDict
    \/ BAdd
    \/ BAddConstraints
    \/ BMinimize
    \/ BReturn
    \/ End
    \/ Raise
    \/ Exit
    \/ PrintInformation
    \/ NextCell
    \/ LoopInit
    \/ LoopIter
    \/ Record
    \/ LoopDone

Spec == Init /\ [][Next]_vars

(***************************************************************************)
(* Views of a built model                                                  *)
(***************************************************************************)

\* the model a builder is about to return
Returning == pc = "b_ret"

Matrix(mdl) == [p \in 1..Len(mdl.cts) |-> mdl.cts[p].lhs]
Senses(mdl) == [p \in 1..Len(mdl.cts) |-> mdl.cts[p].sense]
Rhs(mdl) == [p \in 1..Len(mdl.cts) |-> mdl.cts[p].rhs]
VarTypes(mdl) == [p \in 1..Len(mdl.vars) |-> mdl.vars[p].vtype]

\* the mathematical model: variables, constraint matrix, senses, right-hand
\* sides and objective, without names and settings
MathModel(mdl) ==
    [vars |-> VarTypes(mdl), matrix |-> Matrix(mdl), senses |-> Senses(mdl),
     rhs |-> Rhs(mdl), objective |-> mdl.objective]

\* the with block has been left, normally or by an exception
LeftBlock == pc \in {"after", "raised"}

\* the with block has been entered and not yet left
InsideBlock == pc \in {"body", "b_model", "b_vars", "b_k", "b_add", "b_cts",
                       "b_obj", "b_ret", "end", "exit"}

(***************************************************************************)
(* Claims                                                                  *)
(***************************************************************************)

\* C1: every with ContextTimer(msg) block that is entered runs __exit__ exactly
\* once when it is left, by normal completion or by an exception, and that
\* exit sets msecs and prints the line containing msg and the milliseconds.
C1_ExitOnceOnEveryPath ==
    /\ enterCalls <= 1
    /\ exitCalls <= 1
    /\ (InsideBlock /\ pc # "exit") => (enterCalls = 1 /\ exitCalls = 0)
    /\ LeftBlock =>
          /\ enterCalls = 1
          /\ exitCalls = 1
          /\ "msecs" \in DOMAIN timer
          /\ Len(out) >= 1
          /\ out[Len(out)] = "<-- " \o CurrentMsg \o ",  time: "
                                 \o ToString(timer.msecs) \o " ms"

\* C1 witness: a block left by an exception, after __exit__ has reported
C1_Witness == pc = "raised" /\ exitCalls = 1 /\ Kind = "single" /\ timer.msecs = 1

\* C2: msecs is the ceiling of 1000 times the difference between the clock at
\* exit and the clock at the timer's __enter__; when the exit reading is not
\* below the enter reading it is a non-negative whole number, and it is 0 only
\* if the two readings are equal.
C2_MsecsIsCeiling ==
    LeftBlock =>
        LET dt == clock - enterAt
        IN /\ timer.msecs \in Int
           /\ timer.msecs * TicksPerSec >= 1000 * dt
           /\ (timer.msecs - 1) * TicksPerSec < 1000 * dt
           /\ dt >= 0 => /\ timer.msecs >= 0
                         /\ timer.msecs = 0 => clock = enterAt

\* C2 witness: half a millisecond elapsed and was reported as 1 ms
C2_Witness == pc = "after" /\ clock - enterAt = 1 /\ enterAt > 0 /\ timer.msecs = 1

\* C3: the model a builder returns for size N has exactly N binary variables
\* indexed 0..N-1, exactly N linear constraints and one minimization objective.
C3_SizeOfModel ==
    Returning =>
        /\ Len(frame.m.vars) = frame.size
        /\ \A p \in 1..Len(frame.m.vars) : frame.m.vars[p].vtype = "binary"
        /\ IF UsesVarDict(frame.fn)
           THEN DOMAIN frame.ys = 0..(frame.size - 1)
           ELSE DOMAIN frame.ys = 1..frame.size
        /\ \A key \in DOMAIN frame.ys : frame.ys[key] \in 0..(frame.size - 1)
        /\ \A k1, k2 \in DOMAIN frame.ys : frame.ys[k1] = frame.ys[k2] => k1 = k2
        /\ Len(frame.m.cts) = frame.size
        /\ \A p \in 1..Len(frame.m.cts) : DOMAIN frame.m.cts[p].lhs = 0..(frame.size - 1)
        /\ frame.m.objective # NoObjective
        /\ frame.m.objective.sense = "min"

\* C3 witness: the advanced-model builder returns a model of the largest size
C3_Witness == Returning /\ frame.fn = "7" /\ frame.size = MaxSize /\ MaxSize >= 2

\* C4: in the model every builder returns, the objective is to minimize the
\* sum of (k+1) * y_k: the coefficient of y_k is k+1.
C4_ObjectiveCoefficients ==
    Returning =>
        /\ frame.m.objective.sense = "min"
        /\ \A k \in 0..(frame.size - 1) : frame.m.objective.expr[k] = k + 1

\* C5: in the model every builder returns, constraint m is a >= inequality
\* in which the coefficient of y_l is l + ((l+m) mod 3).
C5_ConstraintCoefficients ==
    Returning =>
        \A mm \in 0..(frame.size - 1) :
            /\ frame.m.cts[mm + 1].sense = ">="
            /\ \A l \in 0..(frame.size - 1) :
                   frame.m.cts[mm + 1].lhs[l] = l + ((l + mm) % 3)

\* C6: in every timed block that wraps a builder, the only model operation
\* between the timer's entry and its exit is the build of that one model.
C6_OnlyBuildIsTimed ==
    (Kind # "fib" /\ (InsideBlock \/ LeftBlock)) =>
        /\ Len(timed) <= 1
        /\ \A p \in 1..Len(timed) : timed[p] = "build"

\* the builders written with scalar products
EquivalentBuilders == {"2", "21", "3", "4", "5", "6", "7"}

\* C7: for every size, builders 2, 21, 3, 4, 5, 6 and 7 build the same
\* mathematical model: same binary variables, constraint matrix, senses,
\* right-hand sides and objective coefficients.
C7_SameModel ==
    (Returning /\ frame.fn \in EquivalentBuilders) =>
        \A g \in EquivalentBuilders :
            MathModel(Built(g, frame.size)) = MathModel(frame.m)

\* C7 witness: the advanced-model builder returns a model with several rows
C7_Witness == Returning /\ frame.fn = "7" /\ frame.size >= 2 /\ Kind = "loop"

\* C8: build_bench_model1 and build_bench_model2 produce the same constraint
\* matrix, the same right-hand sides and the same objective coefficients.
C8_SumEqualsScalProd ==
    (Returning /\ frame.fn = "1") =>
        LET m2 == Built("2", frame.size)
        IN /\ Matrix(frame.m) = Matrix(m2)
           /\ Rhs(frame.m) = Rhs(m2)
           /\ frame.m.objective.expr = m2.objective.expr

\* the benchmark loop was left by an exception: the timer has reported and
\* the run that raised has no entry in res
C9_RaisedState ==
    (pc = "raised" /\ Kind = "loop") =>
        /\ exc
        /\ exitCalls = 1
        /\ out[Len(out)] = "<-- " \o CurrentMsg \o ",  time: "
                               \o ToString(timer.msecs) \o " ms"
        /\ <<b, sizes[sidx]>> \notin DOMAIN res
        /\ Cardinality(DOMAIN res) = r - 1

\* a step taken while an exception is in flight in the benchmark loop: it is
\* the __exit__ of the timer, and it leaves the exception, res and r alone
C9_RaisedStep ==
    (exc /\ Kind = "loop") =>
        /\ exc'
        /\ pc = "exit"
        /\ pc' = "raised"
        /\ res' = res
        /\ r' = r
        /\ exitCalls' = exitCalls + 1

\* C9: when a builder or m.end() raises inside a timed block of the benchmark
\* loop, the timer still reports, the exception is not suppressed and leaves
\* the loop, res gets no entry for that run, recorded entries stay as they
\* are, and no later run starts.
C9_NoRecovery == [](C9_RaisedState) /\ [][C9_RaisedStep]_vars

\* C9 witness: m.end() or a builder raised in a later run of the loop, with
\* earlier results recorded
C9_Witness == pc = "raised" /\ Kind = "loop" /\ r >= 2 /\ DOMAIN res # {}

====
